---------------------------- MODULE Spec2Model ----------------------------
(***************************************************************************)
(* State-machine model of the interactive model explorer of PyAstronomy    *)
(* (src/pyaGui/ffmodelExplorer.py): the plotter FFModelPlotFit, the modal  *)
(* SetToDialog, the ShowParameterSummary window and the callbacks of       *)
(* FFModelExplorer.  One action per Tk event; a Tk variable's write trace  *)
(* runs synchronously inside the handler that writes the variable, so it   *)
(* is part of that handler's action.                                       *)
(*                                                                         *)
(* Numbers are exact rationals <<n, d>> (d > 0, lowest terms); texts are   *)
(* sequences of one-character strings, so that float() and "% g" are       *)
(* computed, not assumed.                                                  *)
(***************************************************************************)
EXTENDS Integers, Sequences, FiniteSets, TLC

\* Python's None is the empty tuple, and a value x that may be None is <<x>>.
None == <<>>
Some(x) == <<x>>

-----------------------------------------------------------------------------
(* Rational arithmetic: the values of Python floats, without rounding.     *)

Abs(i) == IF i < 0 THEN -i ELSE i

RECURSIVE Gcd(_, _)
Gcd(a, b) == IF b = 0 THEN a ELSE Gcd(b, a % b)

RECURSIVE Pow10(_)
Pow10(k) == IF k <= 0 THEN 1 ELSE 10 * Pow10(k - 1)

Rat(n, d) ==
  LET g == Gcd(Abs(n), Abs(d))
      s == IF d < 0 THEN -1 ELSE 1
  IN  <<(s * n) \div g, (s * d) \div g>>

Zero == <<0, 1>>
RatAdd(a, b) == Rat(a[1] * b[2] + b[1] * a[2], a[2] * b[2])
RatSub(a, b) == Rat(a[1] * b[2] - b[1] * a[2], a[2] * b[2])
RatMul(a, b) == Rat(a[1] * b[1], a[2] * b[2])
\* Only used with b # Zero: Python raises ZeroDivisionError otherwise.
RatDiv(a, b) == Rat(a[1] * b[2], a[2] * b[1])
RatLess(a, b) == a[1] * b[2] < b[1] * a[2]

-----------------------------------------------------------------------------
(* Texts and the two conversions between texts and floats.                 *)

Digits == {"0", "1", "2", "3", "4", "5", "6", "7", "8", "9"}

DigitVal(c) ==
  CASE c = "0" -> 0 [] c = "1" -> 1 [] c = "2" -> 2 [] c = "3" -> 3
    [] c = "4" -> 4 [] c = "5" -> 5 [] c = "6" -> 6 [] c = "7" -> 7
    [] c = "8" -> 8 [] c = "9" -> 9

DigitChar(i) ==
  CASE i = 0 -> "0" [] i = 1 -> "1" [] i = 2 -> "2" [] i = 3 -> "3"
    [] i = 4 -> "4" [] i = 5 -> "5" [] i = 6 -> "6" [] i = 7 -> "7"
    [] i = 8 -> "8" [] i = 9 -> "9"

AllDigits(s) == \A i \in 1..Len(s) : s[i] \in Digits

RECURSIVE DigitsVal(_)
DigitsVal(s) ==
  IF s = <<>> THEN 0
  ELSE 10 * DigitsVal(SubSeq(s, 1, Len(s) - 1)) + DigitVal(s[Len(s)])

RECURSIVE NatDigits(_)
NatDigits(n) ==
  IF n < 10 THEN <<DigitChar(n)>>
  ELSE NatDigits(n \div 10) \o <<DigitChar(n % 10)>>

RECURSIVE Strip(_)
Strip(s) ==
  IF s = <<>> THEN s
  ELSE IF s[1] = " " THEN Strip(Tail(s))
  ELSE IF s[Len(s)] = " " THEN Strip(SubSeq(s, 1, Len(s) - 1))
  ELSE s

\* The first position of character c in s, or 0.
IndexOf(s, c) ==
  IF \E i \in 1..Len(s) : s[i] = c
  THEN CHOOSE i \in 1..Len(s) : s[i] = c /\ \A j \in 1..(i - 1) : s[j] # c
  ELSE 0

Signed(s) == s # <<>> /\ s[1] \in {"+", "-"}
Unsign(s) == IF Signed(s) THEN Tail(s) ELSE s
SignOf(s) == IF s # <<>> /\ s[1] = "-" THEN -1 ELSE 1

\* A decimal mantissa: digits with at most one point and at least one digit.
IsMantissa(s) ==
  LET p == IndexOf(s, ".")
      ip == IF p = 0 THEN s ELSE SubSeq(s, 1, p - 1)
      fp == IF p = 0 THEN <<>> ELSE SubSeq(s, p + 1, Len(s))
  IN  AllDigits(ip) /\ AllDigits(fp) /\ Len(ip) + Len(fp) >= 1

MantissaVal(s) ==
  LET p == IndexOf(s, ".")
      ip == IF p = 0 THEN s ELSE SubSeq(s, 1, p - 1)
      fp == IF p = 0 THEN <<>> ELSE SubSeq(s, p + 1, Len(s))
  IN  Rat(DigitsVal(ip) * Pow10(Len(fp)) + DigitsVal(fp), Pow10(Len(fp)))

IsExponent(s) == Unsign(s) # <<>> /\ AllDigits(Unsign(s))

\* a * 10^k, one factor of ten at a time (k may be negative).
RECURSIVE Scale10(_, _)
Scale10(a, k) ==
  IF k = 0 THEN a
  ELSE IF k > 0 THEN Scale10(RatMul(a, <<10, 1>>), k - 1)
  ELSE Scale10(RatMul(a, <<1, 10>>), k + 1)

\* Python's float(text): None stands for the ValueError, Some(v) for the float.
\* Surrounding blanks are stripped; the grammar is [sign] mantissa [e [sign]
\* digits].  ("inf" and "nan" need letters the texts of this model lack.)
float(text) ==
  LET s == Strip(text)
      u == Unsign(s)
      e == IndexOf(u, "e")
      m == IF e = 0 THEN u ELSE SubSeq(u, 1, e - 1)
      x == IF e = 0 THEN <<>> ELSE SubSeq(u, e + 1, Len(u))
      xv == IF e = 0 THEN 0 ELSE SignOf(x) * DigitsVal(Unsign(x))
      mv == MantissaVal(m)
  IN  IF IsMantissa(m) /\ (e = 0 \/ IsExponent(x))
      THEN Some(RatMul(Rat(SignOf(s), 1), Scale10(mv, xv)))
      ELSE None

\* The decimal exponent of a positive rational a: the X with 10^X <= a < 10^(X+1).
RECURSIVE Exp10(_)
Exp10(a) ==
  IF RatLess(a, <<1, 1>>) THEN Exp10(RatMul(a, <<10, 1>>)) - 1
  ELSE IF RatLess(a, <<10, 1>>) THEN 0
  ELSE Exp10(RatMul(a, <<1, 10>>)) + 1

\* n/d rounded to the nearest integer, halves to even.
RoundHalfEven(a) ==
  LET q == a[1] \div a[2]
      r == 2 * (a[1] % a[2])
  IN  IF r > a[2] \/ (r = a[2] /\ q % 2 = 1) THEN q + 1 ELSE q

RECURSIVE StripZeros(_)
StripZeros(s) ==
  IF s # <<>> /\ s[Len(s)] = "0" THEN StripZeros(SubSeq(s, 1, Len(s) - 1)) ELSE s

RECURSIVE Zeros(_)
Zeros(k) == IF k <= 0 THEN <<>> ELSE <<"0">> \o Zeros(k - 1)

\* The number of significant digits of the conversion %g (C's default).
Precision == 6

\* Python's "% g" % v: a blank or a minus sign, Precision significant digits,
\* trailing zeros removed, exponent notation outside 1e-4 <= |v| < 1e6.
FormatG(v) ==
  LET sign == IF v[1] < 0 THEN <<"-">> ELSE <<" ">>
      a == <<Abs(v[1]), v[2]>>
      x0 == Exp10(a)
      sh == Precision - 1 - x0
      m0 == RoundHalfEven(Scale10(a, sh))
      up == m0 = Pow10(Precision)
      m == IF up THEN Pow10(Precision - 1) ELSE m0
      x == IF up THEN x0 + 1 ELSE x0
      ds == NatDigits(m)
      frac(s) == IF StripZeros(s) = <<>> THEN <<>> ELSE <<".">> \o StripZeros(s)
      xd == NatDigits(Abs(x))
  IN  IF v[1] = 0 THEN <<" ", "0">>
      ELSE IF x < -4 \/ x >= Precision
      THEN sign \o <<ds[1]>> \o frac(Tail(ds)) \o <<"e">>
                \o (IF x < 0 THEN <<"-">> ELSE <<"+">>)
                \o (IF Len(xd) < 2 THEN <<"0">> ELSE <<>>) \o xd
      ELSE IF x >= 0
      THEN sign \o SubSeq(ds, 1, x + 1) \o frac(SubSeq(ds, x + 2, Len(ds)))
      ELSE sign \o <<"0">> \o frac(Zeros(-x - 1) \o ds)

-----------------------------------------------------------------------------
(* The explored model object (odf).  The explorer only consumes its        *)
(* contract; the object here is a straight line c0 + c1*x, a polynomial    *)
(* model of degree one, with a value and a free/frozen flag per parameter. *)

\* odf.parameters().keys()
Params == {"c0", "c1"}

\* The data handed to FFModelPlotFit: abscissa, ordinate, and the errors used
\* when yerr is given.
X == <<Rat(0, 1), Rat(1, 1)>>
Y == <<Rat(1, 1), Rat(3, 1)>>
YErr == <<Rat(1, 2), Rat(2, 1)>>

InitVal == [p \in Params |-> IF p = "c0" THEN Rat(1, 1) ELSE Rat(2, 1)]

\* odf.evaluate(x)
evaluate(odf, x) ==
  [i \in 1..Len(x) |-> RatAdd(odf.val["c0"], RatMul(odf.val["c1"], x[i]))]

\* odf.freeParamNames()
freeParamNames(odf) == odf.free

\* odf.thaw(name) and odf.freeze(name)
thaw(odf, name) == [odf EXCEPT !.free = @ \cup {name}]
freeze(odf, name) == [odf EXCEPT !.free = @ \ {name}]

\* odf[name] = v
setitem(odf, name, v) == [odf EXCEPT !.val[name] = v]

\* odf.parameterSummary(toScreen=False): one line per parameter.
parameterSummary(odf) ==
  LET line(p) == [name |-> p, value |-> FormatG(odf.val[p]), free |-> p \in odf.free]
  IN  <<line("c0"), line("c1")>>

\* The values a fit may leave in a free parameter (the optimizer is external).
FitValues == {Rat(1, 1), Rat(3, 2)}

\* odf.fit(x, y, yerr): the outcomes of a fit are the models in which every
\* frozen parameter keeps its value and every free one holds a fitted value.
FitOutcomes(odf) ==
  {[odf EXCEPT !.val = v] :
     v \in {w \in [Params -> FitValues \cup {odf.val[p] : p \in Params}] :
              \A p \in Params : IF p \in odf.free THEN w[p] \in FitValues
                                ELSE w[p] = odf.val[p]}}

-----------------------------------------------------------------------------
(* FFModelPlotFit.  An axes object is the list of its lines; a line is the *)
(* format string it was plotted with and its ordinate values.              *)

Line(fmt, y) == [fmt |-> fmt, y |-> y]

\* FFModelPlotFit.__init__(x, y, yerr, withResiduals)
NewPlotter(yerr, withResiduals) ==
  [yerr |-> yerr, withResiduals |-> withResiduals,
   a |-> None, ar |-> None, modelLine |-> None, residualLine |-> None]

\* FFModelPlotFit._setUpAxes: the main axes, and the residual axes only with
\* withResiduals.
setUpAxes(pl) ==
  IF ~pl.withResiduals THEN [pl EXCEPT !.a = Some(<<>>)]
  ELSE [pl EXCEPT !.a = Some(<<>>), !.ar = Some(<<>>)]

\* list.pop(-1)
PopLast(lines) == SubSeq(lines, 1, Len(lines) - 1)

\* The elementwise y - model, divided by yerr when yerr is given.
Residuals(pl, model) ==
  LET res == [i \in 1..Len(Y) |-> RatSub(Y[i], model[i])]
  IN  IF pl.yerr # None
      THEN [i \in 1..Len(Y) |-> RatDiv(res[i], pl.yerr[1][i])]
      ELSE res

\* The main axes after FFModelPlotFit.plot's data and model calls.
PlotMain(pl, model) ==
  LET kept == IF pl.yerr = None /\ pl.modelLine # None
              THEN PopLast(pl.a[1]) ELSE pl.a[1]
      data == IF pl.yerr = None THEN Line("bp", Y) ELSE Line("b.", Y)
  IN  kept \o <<data, Line("r--", model)>>

\* A plot that never removes the previous residual series.
PlotResidualsKept(pl, model) ==
  pl.ar[1] \o <<Line("bp", Residuals(pl, model))>>

\* The residual axes after FFModelPlotFit.plot.
PlotResiduals(pl, model) ==
  LET kept == IF pl.residualLine # None THEN PopLast(pl.ar[1]) ELSE pl.ar[1]
  IN  kept \o <<Line("bp", Residuals(pl, model))>>

\* FFModelPlotFit.plot(f, odf)
plot(pl0, odf) ==
  LET pl == IF pl0.a = None THEN setUpAxes(pl0) ELSE pl0
      model == evaluate(odf, X)
      p1 == [pl EXCEPT !.a = Some(PlotMain(pl, model)),
                       !.modelLine = IF pl.yerr = None
                                     THEN Some(Line("bp", Y)) ELSE @]
  IN  IF pl.withResiduals
      THEN [p1 EXCEPT !.ar = Some(PlotResiduals(pl, model)),
                      !.residualLine = Some(Line("bp", Residuals(pl, model)))]
      ELSE p1

-----------------------------------------------------------------------------
(* The package funcFit: what its __init__ does at import, and status().    *)

\* The packages ImportCheck is asked about.
Packages == {"numpy", "scipy", "pymc", "matplotlib", "pyfits"}

\* The interpreters the module may meet: sys.version_info[0:2].
MaxMinor == 9
Versions == {2, 3} \X (0..MaxMinor)

\* ImportCheck(names).check: for every name, whether it can be imported.
ImportCheck(names, importable) == [n \in names |-> n \in importable]

\* The model modules imported unconditionally
ModelModules ==
  {"modelRebin", "onedfit", "gauss1d", "gauss2d", "params", "sinexp1d",
   "polyModel", "cauchyLorentz1d", "anneal", "syncFit", "coordinateGrid",
   "circle2d"}

VersionWarning == "funcFit needs 2.7.x or greater (but not Python 3.x)"
VoigtWarning == "No Voigt profile available, because scipy cannot be imported"

\* The version check: _majV, _minV = sys.version_info[0:2]; if _minV < 7: warn
versionCheck(version) ==
  LET majV == version[1]
      minV == version[2]
  IN  IF minV < 7 THEN <<VersionWarning>> ELSE <<>>

\* The package before its import
Unimported(version, importable) ==
  [version |-> version, importable |-> importable, pc |-> "unimported",
   warnings |-> <<>>, raised |-> None, modules |-> {},
   scoImport |-> None, pymcImport |-> None, mplImport |-> None,
   printed |-> <<>>]

\* A package that takes pymc's flag for the Voigt profile.
importVoigtByPymc(F) ==
  LET ic == ImportCheck(Packages, F.importable)
  IN  [F EXCEPT !.pc = "imported",
                !.warnings = versionCheck(F.version),
                !.modules = IF ic["pymc"] THEN ModelModules \cup {"utils", "voigt1d"}
                                          ELSE ModelModules,
                !.scoImport = Some(ic["scipy"]),
                !.pymcImport = Some(ic["pymc"]),
                !.mplImport = Some(ic["matplotlib"])]

\* import funcFit: the module's statements from top to bottom.
importFuncFit(F) ==
  LET warned == versionCheck(F.version)
      ic == ImportCheck(Packages, F.importable)
      utils == IF ic["pymc"] THEN {"utils"} ELSE {}
      voigt == IF ic["scipy"] THEN {"voigt1d"} ELSE {}
  IN  IF ~ic["numpy"]
      THEN [F EXCEPT !.pc = "failed", !.warnings = warned,
                     !.raised = Some("PyARequiredImport")]
      ELSE [F EXCEPT !.pc = "imported",
                     !.warnings = IF ic["scipy"] THEN warned
                                  ELSE Append(warned, VoigtWarning),
                     !.modules = utils \cup ModelModules \cup voigt,
                     !.scoImport = Some(ic["scipy"]),
                     !.pymcImport = Some(ic["pymc"]),
                     !.mplImport = Some(ic["matplotlib"])]

\* __question(tf)
question(tf) == IF tf THEN "yes" ELSE "no"

SciPyHints ==
  << <<"  The minimization algorithms from SciPy cannot be used.">>,
     <<"  Install SciPy to make them available (see http://www.scipy.org/).">> >>
PymcHints ==
  << <<"  No Markov-Chain Monte-Carlo sampling via pymc will be possible.">>,
     <<"  Install pymc to enable it (see http://code.google.com/p/pymc/).">> >>

\* status(): the lines it prints, each the tuple of the items of one print.
status(F) ==
  << <<"Status of funcFit:">>, <<"--------------------------">>,
     <<"Is scipy.optimize available? ", question(F.scoImport[1])>> >>
  \o (IF ~F.scoImport[1] THEN SciPyHints ELSE <<>>)
  \o << <<"Is pymc available? ", question(F.pymcImport[1])>> >>
  \o (IF ~F.pymcImport[1] THEN PymcHints ELSE <<>>)

\* The package as the explorer's process has it: imported by a Python 2.7 in
\* which every package is there.
FuncFitInUse == importFuncFit(Unimported(<<2, 7>>, Packages))

-----------------------------------------------------------------------------
(* FFModelExplorer.                                                        *)

VARIABLES
  odf,         \* the model object: [val, free]
  plotter,     \* the FFModelPlotFit object
  gui,         \* the explorer's Tk variables, the value label and modProps
  parSumWin,   \* root.parSumWin: None or Some(i), the i-th summary window
  windows,     \* the texts of the ShowParameterSummary windows that exist
  dialog,      \* the SetToDialog _setToClicked waits for: None or Some(record)
  event,       \* the handler that ran last and its wheel button number
  calls,       \* what that handler called, in order
  raised,      \* the exception that ended it, or None
  funcFit      \* the package funcFit in this process

vars == <<odf, plotter, gui, parSumWin, windows, dialog, event, calls, raised,
          funcFit>>

\* The texts of the two entry fields at start: Tcl's strings of 1.02 and 0.01.
DefaultMul == <<"1", ".", "0", "2">>
DefaultAdd == <<"0", ".", "0", "1">>

\* What the user types into an entry field (factor, step or dialog input).
EntryTexts == {<<"2">>, <<"0">>, <<"a", "b", "c">>}

\* The bounds of the model: the magnitude of a parameter value (numerator and
\* denominator) and the number of lines the main axes may hold before a
\* handler that plots is taken.
MaxNum == 300
MaxDen == 100
MaxLines == 4

InRange(v) == Abs(v[1]) <= MaxNum /\ v[2] <= MaxDen

\* A handler works on its own copy of the objects it can reach.
World == [odf |-> odf, plotter |-> plotter, gui |-> gui,
          calls |-> <<>>, raised |-> None]

\* A call the handler makes: its name, and the arguments where a claim reads
\* them.
Called(name, args) == [name |-> name, args |-> args]
Call(W, name) == [W EXCEPT !.calls = Append(@, Called(name, <<>>))]

\* The text of the value label for the selected parameter.
ValueText(W) == <<"V", "a", "l", "u", "e", ":", " ", " ">>
                  \o FormatG(W.odf.val[W.gui.selectedPar])

\* valLabel.config(text="Value:  % g" % odf[selectedPar])
ShowValue(W) == Call([W EXCEPT !.gui.valLabel = ValueText(W)], "valLabel.config")

\* FFModelExplorer._parameterValueChanged
Replot(W) == Call([W EXCEPT !.plotter = plot(W.plotter, W.odf)], "plotter.plot")
parameterValueChanged(W) == Call(Replot(ShowValue(W)), "canvas.draw")

\* FFModelExplorer._modModusChanged, the write trace of modModus
modModusChanged(W) ==
  [W EXCEPT !.gui.modProps[W.gui.selectedPar].modus = W.gui.modModus]

\* FFModelExplorer._modModeChanged, the write trace of both entry texts
modModeChanged(W) ==
  [W EXCEPT !.gui.modProps[W.gui.selectedPar].modValAdd = W.gui.modEntryTextAdd,
            !.gui.modProps[W.gui.selectedPar].modValMul = W.gui.modEntryTextMul]

\* A trace with the two branches of _thawFrozenChange exchanged.
thawFrozenSwapped(W) ==
  IF W.gui.parIsFree
  THEN [W EXCEPT !.odf = freeze(W.odf, W.gui.selectedPar)]
  ELSE [W EXCEPT !.odf = thaw(W.odf, W.gui.selectedPar)]

\* FFModelExplorer._thawFrozenChange, the write trace of parIsFree
thawFrozenChange(W) ==
  IF W.gui.parIsFree
  THEN [W EXCEPT !.odf = thaw(W.odf, W.gui.selectedPar)]
  ELSE [W EXCEPT !.odf = freeze(W.odf, W.gui.selectedPar)]

\* Writing a traced Tk variable runs its trace before set() returns.
SetModModus(W, v) == modModusChanged([W EXCEPT !.gui.modModus = v])
SetEntryTextAdd(W, t) == modModeChanged([W EXCEPT !.gui.modEntryTextAdd = t])
SetEntryTextMul(W, t) == modModeChanged([W EXCEPT !.gui.modEntryTextMul = t])
SetParIsFree(W, b) == thawFrozenChange([W EXCEPT !.gui.parIsFree = b])

\* The statements of _activeParameterChanged after the value label, in their
\* order: modModus.set and the radio button of the modus, the two entry
\* texts, parIsFree.set and the radio button of the free state.
RestoreModus(W) == SetModModus(W, W.gui.modProps[W.gui.selectedPar].modus)
SelectModusRadio(W) ==
  IF W.gui.modModus = "mul" THEN SetModModus(W, "mul") ELSE SetModModus(W, "add")
RestoreAdd(W) == SetEntryTextAdd(W, W.gui.modProps[W.gui.selectedPar].modValAdd)
RestoreMul(W) == SetEntryTextMul(W, W.gui.modProps[W.gui.selectedPar].modValMul)
RestoreFree(W) == SetParIsFree(W, W.gui.selectedPar \in freeParamNames(W.odf))
SelectFreeRadio(W) ==
  IF W.gui.parIsFree THEN SetParIsFree(W, TRUE) ELSE SetParIsFree(W, FALSE)

\* FFModelExplorer._activeParameterChanged, the write trace of selectedPar
activeParameterChanged(W) ==
  SelectFreeRadio(RestoreFree(RestoreMul(RestoreAdd(
    SelectModusRadio(RestoreModus(ShowValue(W)))))))

SetSelectedPar(W, p) == activeParameterChanged([W EXCEPT !.gui.selectedPar = p])

\* FFModelExplorer.__init__: the state after construction, first plot included.
NewExplorer(odf0, plotter0, first) ==
  LET g == [modProps |-> [p \in Params |->
                            [modus |-> "mul", modValMul |-> DefaultMul,
                             modValAdd |-> DefaultAdd]],
            selectedPar |-> first,
            modModus |-> "mul",
            modEntryTextMul |-> DefaultMul,
            modEntryTextAdd |-> DefaultAdd,
            parIsFree |-> first \in freeParamNames(odf0),
            valLabel |-> <<>>]
  IN  parameterValueChanged([odf |-> odf0, plotter |-> plotter0, gui |-> g,
                             calls |-> <<>>, raised |-> None])

\* The state after FFModelExplorer(odf, FFModelPlotFit(x, y, yerr,
\* withResiduals)) for a model whose parameters are all frozen, as a new
\* funcFit model's are.  The parameter selected first is ps[0], the first key
\* of a dictionary: either parameter.
Constructed(yerr, withResiduals, first) ==
    LET W == NewExplorer([val |-> InitVal, free |-> {}],
                         NewPlotter(yerr, withResiduals), first)
    IN  /\ odf = W.odf
        /\ plotter = W.plotter
        /\ gui = W.gui
        /\ parSumWin = None
        /\ windows = <<>>
        /\ dialog = None
        /\ event = [handler |-> "__init__", num |-> 0]
        /\ calls = W.calls
        /\ raised = None
        /\ funcFit = FuncFitInUse

\* Either kind of plotter
Init ==
  \E yerr \in {None, Some(YErr)}, withResiduals \in BOOLEAN, first \in Params :
    Constructed(yerr, withResiduals, first)

\* The plotter of the defaults: no errors, no residuals
InitDefault == \E first \in Params : Constructed(None, FALSE, first)

\* The handler's world becomes the state.
Commit(W, handler, num) ==
  /\ odf' = W.odf
  /\ plotter' = W.plotter
  /\ gui' = W.gui
  /\ calls' = W.calls
  /\ raised' = W.raised
  /\ event' = [handler |-> handler, num |-> num]

\* A dialog that never grabs the events.
GrabbedNever == FALSE

\* SetToDialog.grab_set: while the dialog is open the main window gets no event.
Grabbed == dialog # None

\* The parameter menu: the user picks p, the menu writes selectedPar.
SelectParameter ==
  /\ ~Grabbed
  /\ \E p \in Params : Commit(SetSelectedPar(World, p), "_activeParameterChanged", 0)
  /\ UNCHANGED <<funcFit, parSumWin, windows, dialog>>

\* The radio buttons Multiply and Add write modModus.
ClickModus ==
  /\ ~Grabbed
  /\ \E m \in {"mul", "add"} : Commit(SetModModus(World, m), "_modModusChanged", 0)
  /\ UNCHANGED <<funcFit, parSumWin, windows, dialog>>

\* Typing into the factor or the step entry writes its text variable.
EditFactor ==
  /\ ~Grabbed
  /\ \E t \in EntryTexts : Commit(SetEntryTextMul(World, t), "_modModeChanged", 0)
  /\ UNCHANGED <<funcFit, parSumWin, windows, dialog>>

EditStep ==
  /\ ~Grabbed
  /\ \E t \in EntryTexts : Commit(SetEntryTextAdd(World, t), "_modModeChanged", 0)
  /\ UNCHANGED <<funcFit, parSumWin, windows, dialog>>

\* The radio buttons Thawed (TRUE) and Frozen (FALSE) write parIsFree.
ClickRadio(b) ==
  /\ ~Grabbed
  /\ Commit(SetParIsFree(World, b), "_thawFrozenChange", 0)
  /\ UNCHANGED <<funcFit, parSumWin, windows, dialog>>

ClickThawFrozen == \E b \in BOOLEAN : ClickRadio(b)

\* The attributes of an FFModelExplorer and of a SetToDialog: what __init__
\* assigns to self, the methods, and what tk.Toplevel brings along.
ExplorerAttributes ==
  {"f", "odf", "plotter", "root", "plotFrame", "canvas", "controlFrame",
   "modProps", "valueFrame", "valLabel", "setToButton", "selectedPar",
   "pselect", "mouseWheelFrame", "mwmLabel", "modModus", "factorFrame",
   "modEntryTextMul", "modEntryFactor", "radioMultipli", "addFrame",
   "modEntryTextAdd", "modEntryAdd", "radioAdd", "thawFreezeFrame",
   "parIsFree", "radioThaw", "radioFreeze", "fitButton", "parSumButton",
   "cid", "toolbar", "quitButton", "show"}

DialogAttributes ==
  {"parent", "newVal", "inputFrame", "parLabel", "inputVal", "input",
   "buttonFrame", "okButton", "caButton", "tk", "master", "children"}

\* The except clause of both float conversions: the message is built from
\* self.modEntry.get() before tkMessageBox.showwarning is called, so a missing
\* attribute ends the handler with an AttributeError and no warning.
InvalidFloat(W, attributes) ==
  IF "modEntry" \in attributes
  THEN Call(W, "tkMessageBox.showwarning")
  ELSE [W EXCEPT !.raised = Some("AttributeError")]

\* The text _mouseWheel converts: the entry of the active modus.
WheelText(W) ==
  IF W.gui.modModus = "add" THEN W.gui.modEntryTextAdd ELSE W.gui.modEntryTextMul

\* A wheel that steps upwards in either direction.
WheelValueUp(modus, num, val, mf) ==
  IF modus = "mul" THEN Some(RatMul(val, mf)) ELSE Some(RatAdd(val, mf))

\* The value _mouseWheel assigns; None stands for the ZeroDivisionError.
WheelValue(modus, num, val, mf) ==
  IF num = 4
  THEN IF modus = "mul" THEN Some(RatMul(val, mf)) ELSE Some(RatAdd(val, mf))
  ELSE IF modus = "mul"
       THEN IF mf = Zero THEN None ELSE Some(RatDiv(val, mf))
       ELSE Some(RatSub(val, mf))

\* A handler that takes the division by zero for a step that changes nothing
\* and goes on to refresh label and plot.
mouseWheelSkipsZero(W, num) ==
  LET mf == float(WheelText(W))
      new == WheelValue(W.gui.modModus, num, W.odf.val[W.gui.selectedPar], mf[1])
  IN  IF mf = None THEN InvalidFloat(W, ExplorerAttributes)
      ELSE IF new = None THEN parameterValueChanged(W)
      ELSE parameterValueChanged(
             [W EXCEPT !.odf = setitem(W.odf, W.gui.selectedPar, new[1])])

\* FFModelExplorer._mouseWheel(event), event.num 4 (up) or 5 (down)
mouseWheel(W, num) ==
  LET pname == W.gui.selectedPar
      val == W.odf.val[pname]
      mf == float(WheelText(W))
      new == WheelValue(W.gui.modModus, num, val, mf[1])
  IN  IF mf = None THEN InvalidFloat(W, ExplorerAttributes)
      ELSE IF new = None THEN [W EXCEPT !.raised = Some("ZeroDivisionError")]
      ELSE parameterValueChanged([W EXCEPT !.odf = setitem(W.odf, pname, new[1])])

\* A handler that plots is taken while the main axes hold at most MaxLines
\* lines, and a handler that assigns a value while the value (None: it
\* assigns none) stays within MaxNum/MaxDen.
Bounded(new) ==
  /\ Len(plotter.a[1]) <= MaxLines
  /\ new # None => InRange(new[1])

\* The value a wheel event is about to assign, None if it assigns none.
WheelResult(num) ==
  LET mf == float(WheelText(World))
  IN  IF mf = None THEN None
      ELSE WheelValue(gui.modModus, num, odf.val[gui.selectedPar], mf[1])

\* <Button-4> and <Button-5> on the main window
Wheel(num) ==
  /\ ~Grabbed
  /\ Bounded(WheelResult(num))
  /\ Commit(mouseWheel(World, num), "_mouseWheel", num)
  /\ UNCHANGED <<funcFit, parSumWin, windows, dialog>>

MouseWheel == \E num \in {4, 5} : Wheel(num)

\* FFModelPlotFit.fit(odf): odf.fit(self.x, self.y, yerr=self.yerr), which
\* leaves the model as `fitted`.
fit(W, fitted) ==
  [W EXCEPT !.odf = fitted,
            !.calls = Append(@, Called("odf.fit", <<X, Y, W.plotter.yerr>>))]

\* A handler that refreshes label and plot before it fits.
fitClickedRefreshFirst(W, fitted) == fit(parameterValueChanged(W), fitted)

\* FFModelExplorer._fitClicked
fitClicked(W, fitted) == parameterValueChanged(fit(W, fitted))

FitClicked ==
  /\ ~Grabbed
  /\ \E fitted \in FitOutcomes(odf) :
       /\ Bounded(None)
       /\ Commit(fitClicked(World, fitted), "_fitClicked", 0)
  /\ UNCHANGED <<funcFit, parSumWin, windows, dialog>>

\* SetToDialog.__init__(parent, oldVal, pname) up to wait_window: the label
\* names the parameter, the entry holds "% g" % oldVal.
NewDialog(oldVal, pname) ==
  [pname |-> pname, inputVal |-> FormatG(oldVal), newVal |-> None,
   destroyed |-> FALSE]

\* FFModelExplorer._setToClicked up to wait_window
SetToClicked ==
  /\ ~Grabbed
  /\ dialog' = Some(NewDialog(odf.val[gui.selectedPar], gui.selectedPar))
  /\ event' = [handler |-> "_setToClicked", num |-> 0]
  /\ calls' = <<>>
  /\ raised' = None
  /\ UNCHANGED <<funcFit, odf, plotter, gui, parSumWin, windows>>

DialogOpen == dialog # None /\ ~dialog[1].destroyed

\* Typing into the dialog's entry
DialogEdit ==
  /\ DialogOpen
  /\ \E t \in EntryTexts : dialog' = Some([dialog[1] EXCEPT !.inputVal = t])
  /\ event' = [handler |-> "input", num |-> 0]
  /\ calls' = <<>>
  /\ raised' = None
  /\ UNCHANGED <<funcFit, odf, plotter, gui, parSumWin, windows>>

\* SetToDialog._okClicked (the OK button or the Return key)
okClicked(d) ==
  LET mf == float(d.inputVal)
  IN  IF mf = None THEN d
      ELSE [d EXCEPT !.newVal = Some(mf[1]), !.destroyed = TRUE]

OkClicked ==
  /\ DialogOpen
  /\ LET mf == float(dialog[1].inputVal)
         W == IF mf = None THEN InvalidFloat(World, DialogAttributes) ELSE World
     IN  /\ mf # None =>
              /\ InRange(mf[1])
              /\ Len(plotter.a[1]) <= MaxLines
         /\ dialog' = Some(okClicked(dialog[1]))
         /\ calls' = W.calls
         /\ raised' = W.raised
  /\ event' = [handler |-> "_okClicked", num |-> 0]
  /\ UNCHANGED <<funcFit, odf, plotter, gui, parSumWin, windows>>

\* SetToDialog._cancelClicked (the Cancel button or the window's close button)
CancelClicked ==
  /\ DialogOpen
  /\ dialog' = Some([dialog[1] EXCEPT !.destroyed = TRUE])
  /\ event' = [handler |-> "_cancelClicked", num |-> 0]
  /\ calls' = <<>>
  /\ raised' = None
  /\ UNCHANGED <<funcFit, odf, plotter, gui, parSumWin, windows>>

\* FFModelExplorer._setToClicked after wait_window has returned
setToReturned(W, newVal) ==
  IF newVal # None
  THEN parameterValueChanged(
         [W EXCEPT !.odf = setitem(W.odf, W.gui.selectedPar, newVal[1])])
  ELSE W

SetToReturned ==
  /\ dialog # None /\ dialog[1].destroyed
  /\ Commit(setToReturned(World, dialog[1].newVal), "_setToClicked", 1)
  /\ dialog' = None
  /\ UNCHANGED <<funcFit, parSumWin, windows>>

\* ShowParameterSummary.updateInfo: the whole text is replaced by the lines of
\* the summary.  (The text widget of a destroyed window raises TclError.)
updateInfo(wins, i, o) ==
  IF i \in 1..Len(wins)
  THEN [windows |-> [wins EXCEPT ![i] = parameterSummary(o)], raised |-> None]
  ELSE [windows |-> wins, raised |-> Some("TclError")]

\* FFModelExplorer._parameterSummaryClicked
parameterSummaryClicked(psw, wins, o) ==
  LET created == psw = None
      wins1 == IF created THEN Append(wins, <<>>) ELSE wins
      psw1 == IF created THEN Some(Len(wins1)) ELSE psw
      upd == updateInfo(wins1, psw1[1], o)
  IN  [parSumWin |-> psw1, windows |-> upd.windows, raised |-> upd.raised]

ParameterSummaryClicked ==
  /\ ~Grabbed
  /\ LET r == parameterSummaryClicked(parSumWin, windows, odf)
     IN  parSumWin' = r.parSumWin /\ windows' = r.windows /\ raised' = r.raised
  /\ event' = [handler |-> "_parameterSummaryClicked", num |-> 0]
  /\ calls' = <<>>
  /\ UNCHANGED <<funcFit, odf, plotter, gui, dialog>>

\* A close handler that leaves root.parSumWin as it is.
windowClosedKeepsRef(wins, i) ==
  [parSumWin |-> Some(i),
   windows |-> SubSeq(wins, 1, i - 1) \o SubSeq(wins, i + 1, Len(wins))]

\* ShowParameterSummary._windowClosed of the i-th window.  The close request
\* comes from the window manager, which a grab does not hold back.
windowClosed(wins, i) ==
  [parSumWin |-> None,
   windows |-> SubSeq(wins, 1, i - 1) \o SubSeq(wins, i + 1, Len(wins))]

WindowClosed ==
  /\ dialog = None \/ DialogOpen
  /\ \E i \in 1..Len(windows) :
       LET r == windowClosed(windows, i)
       IN  parSumWin' = r.parSumWin /\ windows' = r.windows
  /\ event' = [handler |-> "_windowClosed", num |-> 0]
  /\ calls' = <<>>
  /\ raised' = None
  /\ UNCHANGED <<funcFit, odf, plotter, gui, dialog>>

\* A process that has constructed no explorer.
NoExplorer ==
  /\ odf = None /\ plotter = None /\ gui = None
  /\ parSumWin = None /\ windows = <<>> /\ dialog = None
  /\ event = [handler |-> "start", num |-> 0]
  /\ calls = <<>> /\ raised = None

\* A fresh process: any interpreter, any set of importable packages.
InitImport ==
  /\ NoExplorer
  /\ \E version \in Versions, importable \in SUBSET Packages :
       funcFit = Unimported(version, importable)

\* import PyAstronomy.funcFit
Import ==
  /\ funcFit.pc = "unimported"
  /\ funcFit' = importFuncFit(funcFit)
  /\ event' = [handler |-> "import", num |-> 0]
  /\ UNCHANGED <<odf, plotter, gui, parSumWin, windows, dialog, calls, raised>>

\* funcFit.status()
Status ==
  /\ funcFit.pc = "imported"
  /\ funcFit' = [funcFit EXCEPT !.printed = status(funcFit)]
  /\ event' = [handler |-> "status", num |-> 0]
  /\ UNCHANGED <<odf, plotter, gui, parSumWin, windows, dialog, calls, raised>>

Next ==
  \/ SelectParameter
  \/ ClickModus
  \/ EditFactor
  \/ EditStep
  \/ ClickThawFrozen
  \/ MouseWheel
  \/ FitClicked
  \/ SetToClicked
  \/ DialogEdit
  \/ OkClicked
  \/ CancelClicked
  \/ SetToReturned
  \/ ParameterSummaryClicked
  \/ WindowClosed

Spec == Init /\ [][Next]_vars

\* The user stays on the control panel: parameter menu, modus, entries,
\* thaw/freeze.
PanelNext ==
  \/ SelectParameter
  \/ ClickModus
  \/ EditFactor
  \/ EditStep
  \/ ClickThawFrozen

SpecPanel == InitDefault /\ [][PanelNext]_vars

\* The user sets up the wheel for the parameter selected at start and turns it.
WheelNext ==
  \/ ClickModus
  \/ EditFactor
  \/ EditStep
  \/ MouseWheel

SpecWheel == InitDefault /\ [][WheelNext]_vars

\* The user changes values in every way there is (wheel, fit, dialog), with
\* either kind of plotter, and keeps the factor and the step of the start.
ValuesNext ==
  \/ SelectParameter
  \/ ClickModus
  \/ ClickThawFrozen
  \/ MouseWheel
  \/ FitClicked
  \/ SetToClicked
  \/ DialogEdit
  \/ OkClicked
  \/ CancelClicked
  \/ SetToReturned

SpecValues == Init /\ [][ValuesNext]_vars

\* The user opens and closes the parameter summary between changes of the
\* model, the dialog included.
SummaryNext ==
  \/ ParameterSummaryClicked
  \/ WindowClosed
  \/ SelectParameter
  \/ ClickThawFrozen
  \/ MouseWheel
  \/ SetToClicked
  \/ DialogEdit
  \/ OkClicked
  \/ CancelClicked
  \/ SetToReturned

SpecSummary == InitDefault /\ [][SummaryNext]_vars

\* A process imports funcFit and asks for its status.
ImportNext ==
  \/ Import
  \/ Status

SpecImport == InitImport /\ [][ImportNext]_vars

-----------------------------------------------------------------------------
(* What the claims read off a state.                                       *)

HasCall(cs, name) == \E i \in 1..Len(cs) : cs[i].name = name
CallNames(cs) == [i \in 1..Len(cs) |-> cs[i].name]
CountCalls(cs, name) == Cardinality({i \in 1..Len(cs) : cs[i].name = name})

\* The model curves on the main axes: the lines plotted with 'r--'.
IsModelCurve(l) == l.fmt = "r--"
ModelCurves == SelectSeq(plotter.a[1], IsModelCurve)

\* The label and the plot show the model as it is: the handler configured the
\* label, plotted and drew, in this order and after anything else it did; the
\* label reads the selected parameter's value and the last line of the main
\* axes is the model for the current values.
Refreshed ==
  /\ Len(calls) >= 3
  /\ SubSeq(CallNames(calls), Len(calls) - 2, Len(calls))
       = <<"valLabel.config", "plotter.plot", "canvas.draw">>
  /\ gui.valLabel = <<"V", "a", "l", "u", "e", ":", " ", " ">>
                      \o FormatG(odf.val[gui.selectedPar])
  /\ plotter.a[1][Len(plotter.a[1])] = Line("r--", evaluate(odf, X))

\* Whenever the handler h has drawn, label and plot show the model as it is.
RefreshedBy(h) ==
  (event.handler = h /\ HasCall(calls, "canvas.draw")) => Refreshed

\* C1: in SetToDialog._okClicked with non-numeric text the ValueError is
\* caught, a warning dialog is shown, the handler returns without closing the
\* dialog, newVal stays None and the model is not changed.
C1_InvalidOkWarns ==
  [][(OkClicked /\ float(dialog[1].inputVal) = None) =>
       /\ HasCall(calls', "tkMessageBox.showwarning")
       /\ raised' = None
       /\ dialog' # None /\ ~dialog'[1].destroyed
       /\ dialog'[1].newVal = None
       /\ odf' = odf]_vars

\* C2: in _mouseWheel with non-numeric text in the field of the active modus
\* the ValueError is caught, a warning dialog is shown, and the handler returns
\* with every parameter value unchanged and without replotting.
C2_InvalidWheelWarns ==
  [][(MouseWheel /\ float(WheelText(World)) = None) =>
       /\ HasCall(calls', "tkMessageBox.showwarning")
       /\ raised' = None
       /\ odf'.val = odf.val
       /\ ~HasCall(calls', "plotter.plot")
       /\ plotter' = plotter]_vars

\* C3: when the active parameter is changed to p, the modus, the factor and
\* the step shown afterwards are those that were in effect when p was last
\* active (the defaults if it never was).  modProps[p] is written only while p
\* is selected, and then with what the panel shows, so before the switch it
\* holds exactly those settings.
C3_PanelRestored ==
  [][SelectParameter =>
       LET p == gui'.selectedPar
       IN  /\ gui'.modModus = gui.modProps[p].modus
           /\ gui'.modEntryTextMul = gui.modProps[p].modValMul
           /\ gui'.modEntryTextAdd = gui.modProps[p].modValAdd]_vars

\* What C4 says a wheel event with the numeric step mf makes of the value val.
Nudged(num, modus, val, mf, new) ==
  IF num = 4
  THEN IF modus = "mul" THEN new = RatMul(val, mf) ELSE new = RatAdd(val, mf)
  ELSE IF modus = "mul" THEN mf # Zero /\ RatMul(new, mf) = val
                        ELSE RatAdd(new, mf) = val

\* A wheel step with a numeric step does to the selected parameter what Nudged
\* says, leaves every other value alone and draws.
WheelNudges(num) ==
  LET p == gui.selectedPar
      mf == float(WheelText(World))[1]
  IN  /\ Nudged(num, gui.modModus, odf.val[p], mf, odf'.val[p])
      /\ \A q \in Params \ {p} : odf'.val[q] = odf.val[q]
      /\ raised' = None
      /\ HasCall(calls', "canvas.draw")

\* Wheel down in modus mul with the factor 0
DividesByZero(num) ==
  num = 5 /\ gui.modModus = "mul" /\ float(WheelText(World)) = Some(Zero)

\* C4, as stated: a wheel event with a numeric step sets the selected
\* parameter to val*factor or val+step (up) and to val/factor or val-step
\* (down), changes no other value and refreshes plot and label.
C4_WheelNudgesAlways ==
  /\ [][\A num \in {4, 5} :
          (Wheel(num) /\ float(WheelText(World)) # None) => WheelNudges(num)]_vars
  /\ []RefreshedBy("_mouseWheel")

\* C4, amended: the same, except that wheel down in modus mul with the factor
\* 0 ends in a ZeroDivisionError, changes no value and refreshes nothing.
C4_WheelNudges ==
  /\ [][\A num \in {4, 5} :
          (Wheel(num) /\ float(WheelText(World)) # None) =>
            IF DividesByZero(num)
            THEN /\ raised' = Some("ZeroDivisionError")
                 /\ odf' = odf /\ plotter' = plotter /\ gui' = gui
                 /\ calls' = <<>>
            ELSE WheelNudges(num)]_vars
  /\ []RefreshedBy("_mouseWheel")

\* A wheel-down event in modus mul with the factor 2 has halved the initial
\* value of the selected parameter.
C4_Witness ==
  /\ event = [handler |-> "_mouseWheel", num |-> 5]
  /\ gui.modModus = "mul"
  /\ gui.modEntryTextMul = <<"2">>
  /\ raised = None
  /\ odf.val[gui.selectedPar] = RatDiv(InitVal[gui.selectedPar], Rat(2, 1))
  /\ HasCall(calls, "canvas.draw")

\* C5: the set-to dialog is modal: while it exists no step changes the model
\* or the selection, which stays the parameter the dialog was opened for;
\* closed with OK or Return on a valid float v, newVal is v and on return that
\* parameter is set to exactly v and the plot redrawn once; closed with Cancel
\* or the close button, newVal is None and on return nothing changes and
\* nothing is plotted.
C5_SetToDialog ==
  /\ []RefreshedBy("_setToClicked")
  /\ [][/\ (dialog # None /\ dialog' # None) =>
             /\ odf' = odf
             /\ gui'.selectedPar = gui.selectedPar
             /\ dialog'[1].pname = gui'.selectedPar
        /\ SetToClicked => dialog'[1].pname = gui.selectedPar
        /\ (OkClicked /\ float(dialog[1].inputVal) # None) =>
             /\ dialog'[1].destroyed
             /\ dialog'[1].newVal = float(dialog[1].inputVal)
        /\ CancelClicked => dialog'[1].destroyed /\ dialog'[1].newVal = None
        /\ SetToReturned =>
             IF dialog[1].newVal # None
             THEN /\ odf'.val = [odf.val EXCEPT ![dialog[1].pname] = dialog[1].newVal[1]]
                  /\ odf'.free = odf.free
                  /\ CountCalls(calls', "plotter.plot") = 1
                  /\ CountCalls(calls', "canvas.draw") = 1
             ELSE odf' = odf /\ plotter' = plotter /\ calls' = <<>>]_vars

\* _setToClicked has returned from a dialog closed with OK on the text 2, and
\* the selected parameter, whose value was not 2, is 2 and has been plotted.
C5_Witness ==
  /\ event = [handler |-> "_setToClicked", num |-> 1]
  /\ dialog = None
  /\ odf.val[gui.selectedPar] = Rat(2, 1)
  /\ InitVal[gui.selectedPar] # Rat(2, 1)
  /\ CountCalls(calls, "canvas.draw") = 1

\* C6: after a click on Thawed the selected parameter is free, after a click
\* on Frozen it is not; the free state of every other parameter and all
\* values are as before.
C6_ThawFreeze ==
  [][\A b \in BOOLEAN :
       ClickRadio(b) =>
         LET p == gui.selectedPar
         IN  /\ (p \in freeParamNames(odf')) = b
             /\ \A q \in Params \ {p} :
                  (q \in freeParamNames(odf')) = (q \in freeParamNames(odf))
             /\ odf'.val = odf.val
             /\ gui'.selectedPar = p]_vars

\* The click on Thawed for c1, with c0 frozen, has made c1 the only free one.
C6_Witness ==
  /\ event.handler = "_thawFrozenChange"
  /\ gui.selectedPar = "c1"
  /\ gui.parIsFree
  /\ freeParamNames(odf) = {"c1"}

\* C7: after every call of plot, with yerr None or given, the main axes hold
\* exactly one model curve, the model for the current parameter values.
C7_OneModelCurve ==
  /\ Len(ModelCurves) = 1
  /\ ModelCurves[1].y = evaluate(odf, X)

\* The residuals the claim C8 names: y - model, in units of yerr if given.
ExpectedResiduals ==
  LET model == evaluate(odf, X)
  IN  [i \in 1..Len(Y) |->
         IF plotter.yerr = None THEN RatSub(Y[i], model[i])
         ELSE RatDiv(RatSub(Y[i], model[i]), YErr[i])]

\* C8: with withResiduals the residual axes hold exactly one series after
\* every call of plot, y - model without yerr and (y - model)/yerr with it;
\* without withResiduals there are no residual axes.
C8_OneResidualSeries ==
  IF plotter.withResiduals
  THEN /\ plotter.ar # None
       /\ Len(plotter.ar[1]) = 1
       /\ plotter.ar[1][1].y = ExpectedResiduals
  ELSE plotter.ar = None

\* plot has run at least three times with yerr and residuals, for a model that
\* no longer goes through the data.
C8_Witness ==
  /\ plotter.withResiduals
  /\ plotter.yerr # None
  /\ Len(plotter.a[1]) >= 6
  /\ \E i \in 1..Len(Y) : plotter.ar[1][1].y[i] # Zero

\* C9: a click on Fit calls the model's fit once, with the plotter's x, y and
\* yerr, and only then configures the label and replots, so that both show
\* the fitted values; selection, free states and step settings are as before.
C9_FitClicked ==
  /\ []RefreshedBy("_fitClicked")
  /\ [][FitClicked =>
          /\ CallNames(calls')
               = <<"odf.fit", "valLabel.config", "plotter.plot", "canvas.draw">>
          /\ calls'[1].args = <<X, Y, plotter.yerr>>
          /\ odf' \in FitOutcomes(odf)
          /\ gui'.selectedPar = gui.selectedPar
          /\ freeParamNames(odf') = freeParamNames(odf)
          /\ gui'.modProps = gui.modProps
          /\ gui'.modModus = gui.modModus
          /\ gui'.modEntryTextMul = gui.modEntryTextMul
          /\ gui'.modEntryTextAdd = gui.modEntryTextAdd]_vars

\* A fit with the selected parameter free has left it at 3/2, which was not
\* its value at the start.
C9_Witness ==
  /\ event.handler = "_fitClicked"
  /\ gui.selectedPar \in freeParamNames(odf)
  /\ odf.val[gui.selectedPar] = Rat(3, 2)
  /\ HasCall(calls, "odf.fit")

\* C10: at most one summary window exists, and root.parSumWin is None exactly
\* when none does; a click on 'Parameter summary' creates a window only if
\* there is none and otherwise keeps the one there is, and in both cases the
\* window's whole text becomes the model's current summary; closing the window
\* resets root.parSumWin to None.
C10_SummaryWindow ==
  /\ [](/\ Len(windows) <= 1
        /\ (parSumWin = None) = (windows = <<>>)
        /\ parSumWin # None => parSumWin[1] \in 1..Len(windows))
  /\ [][/\ ParameterSummaryClicked =>
             /\ Len(windows') = IF parSumWin = None THEN Len(windows) + 1
                                                    ELSE Len(windows)
             /\ parSumWin # None => parSumWin' = parSumWin
             /\ parSumWin' # None
             /\ windows'[parSumWin'[1]] = parameterSummary(odf)
             /\ raised' = None
        /\ WindowClosed => parSumWin' = None /\ windows' = <<>>]_vars

\* The summary window shows a model in which c1 has been thawed and c0 is no
\* longer 1: a text that differs from the first summary in both lines.
C10_Witness ==
  /\ event.handler = "_parameterSummaryClicked"
  /\ parSumWin # None
  /\ windows[parSumWin[1]] = parameterSummary(odf)
  /\ windows[parSumWin[1]][1].value # FormatG(InitVal["c0"])
  /\ windows[parSumWin[1]][2].free

\* C13: a wheel-down event in modus mul with the numeric factor 0 is not caught
\* by the input validation: no warning is shown, the handler ends with the
\* uncaught ZeroDivisionError, the selected parameter (and every other one)
\* keeps its value, and neither the label nor the plot is touched.
C13_ZeroFactorUncaught ==
  [][(Wheel(5) /\ gui.modModus = "mul"
        /\ float(gui.modEntryTextMul) = Some(Zero)) =>
       /\ raised' = Some("ZeroDivisionError")
       /\ ~HasCall(calls', "tkMessageBox.showwarning")
       /\ odf'.val = odf.val
       /\ gui'.valLabel = gui.valLabel
       /\ plotter' = plotter
       /\ ~HasCall(calls', "valLabel.config")
       /\ ~HasCall(calls', "plotter.plot")
       /\ ~HasCall(calls', "canvas.draw")]_vars

\* The wheel has been turned down in modus mul with the factor 0, after an
\* earlier wheel step had moved the selected parameter off its first value.
C13_Witness ==
  /\ event = [handler |-> "_mouseWheel", num |-> 5]
  /\ gui.modModus = "mul"
  /\ gui.modEntryTextMul = <<"0">>
  /\ raised = Some("ZeroDivisionError")
  /\ odf.val[gui.selectedPar] # InitVal[gui.selectedPar]

\* What a claim reads off the package: a warning issued, a line printed.
Warned(text) == \E i \in 1..Len(funcFit.warnings) : funcFit.warnings[i] = text
Prints(line) == \E i \in 1..Len(funcFit.printed) : funcFit.printed[i] = line
PrintsAll(lines) == \A i \in 1..Len(lines) : Prints(lines[i])
PrintsNone(lines) == \A i \in 1..Len(lines) : ~Prints(lines[i])
Importable(name) == name \in funcFit.importable

\* C11: once the import has run, the version warning has been issued if and
\* only if the interpreter is not a 2.x with x >= 7: for every 2.x with x < 7
\* and for every 3.x, and not for 2.7.
C11_WarnsExactlyExcluded ==
  funcFit.pc # "unimported" =>
    (Warned(VersionWarning)
       <=> ~(funcFit.version[1] = 2 /\ funcFit.version[2] >= 7))

\* C12: once the import has run: without numpy it has raised
\* PyARequiredImport and imported no module; with numpy it has raised nothing,
\* voigt1d is imported exactly if scipy is importable and the Voigt warning is
\* issued exactly if it is not, and the pymc utilities are imported exactly if
\* pymc is importable.  What status() has printed says yes or no for scipy and
\* for pymc as they are importable, with the hints of exactly the missing ones.
C12_ImportGating ==
  /\ funcFit.pc # "unimported" =>
       IF ~Importable("numpy")
       THEN /\ funcFit.raised = Some("PyARequiredImport")
            /\ funcFit.modules = {}
       ELSE /\ funcFit.raised = None
            /\ ("voigt1d" \in funcFit.modules) <=> Importable("scipy")
            /\ Warned(VoigtWarning) <=> ~Importable("scipy")
            /\ ("utils" \in funcFit.modules) <=> Importable("pymc")
  /\ funcFit.printed # <<>> =>
       /\ Prints(<<"Is scipy.optimize available? ", "yes">>) <=> Importable("scipy")
       /\ Prints(<<"Is scipy.optimize available? ", "no">>) <=> ~Importable("scipy")
       /\ Prints(<<"Is pymc available? ", "yes">>) <=> Importable("pymc")
       /\ Prints(<<"Is pymc available? ", "no">>) <=> ~Importable("pymc")
       /\ IF Importable("scipy") THEN PrintsNone(SciPyHints) ELSE PrintsAll(SciPyHints)
       /\ IF Importable("pymc") THEN PrintsNone(PymcHints) ELSE PrintsAll(PymcHints)

\* status() has printed for a package imported with numpy and pymc but without
\* scipy: no Voigt profile, the pymc utilities, the hints for SciPy only.
C12_Witness ==
  /\ event.handler = "status"
  /\ funcFit.importable = {"numpy", "pymc"}
  /\ "voigt1d" \notin funcFit.modules
  /\ "utils" \in funcFit.modules
  /\ Len(funcFit.printed) = 6

=============================================================================
